---- MODULE Spec2Model ----
(***************************************************************************)
(* Black-Scholes options calculator (src/Main.py).                         *)
(*                                                                         *)
(* The program is a Streamlit script: two numerical functions,             *)
(* black_scholes_price and calculate_greeks, and a page that reads six     *)
(* number_input widgets, calls both functions once and then sweeps the     *)
(* spot price and the volatility to draw curves.                           *)
(*                                                                         *)
(* Numbers.  The code computes in IEEE-754 binary64.  The model keeps the  *)
(* structure of that arithmetic (every operation rounds its result to a    *)
(* fixed number of significant digits; NaN and the infinities exist and    *)
(* propagate as numpy propagates them) with a decimal significand of       *)
(* Digits digits, so that every product fits a machine integer of the      *)
(* model checker.  A value is a record [k, m, e]:                          *)
(*    k = "fin": the number m * 10^e, with m = 0 (and e = 0) or            *)
(*               Lo <= |m| < Hi;                                           *)
(*    k = "inf": an infinity of sign m;   k = "nan": not a number.         *)
(* Rounding makes a*(b-1) and a*b-a differ, makes a difference of two      *)
(* nearly equal products negative, and so on, as it does in the code.      *)
(***************************************************************************)
EXTENDS Integers, Sequences, FiniteSets, TLC

\* ------------------------------------------------------------ float values

\* Significant decimal digits kept by every operation.
Digits == 4
Lo == 10 ^ (Digits - 1)
Hi == 10 ^ Digits

Abs(n) == IF n < 0 THEN -n ELSE n
Sgn(n) == IF n < 0 THEN -1 ELSE IF n > 0 THEN 1 ELSE 0

Fin(m, e) == [k |-> "fin", m |-> m, e |-> e]
Zero == Fin(0, 0)
NaN == [k |-> "nan", m |-> 0, e |-> 0]
Inf(s) == [k |-> "inf", m |-> s, e |-> 0]

IsFin(a) == a.k = "fin"
IsNaN(a) == a.k = "nan"
IsInf(a) == a.k = "inf"
IsZero(a) == a.k = "fin" /\ a.m = 0

\* n / 10 rounded to the nearest integer, ties away from zero.
RoundDiv10(n) == Sgn(n) * ((Abs(n) + 5) \div 10)

\* The value m * 10^e rounded to Digits significant digits.
RECURSIVE Norm(_, _)
Norm(m, e) ==
    IF m = 0 THEN Zero
    ELSE IF Abs(m) >= Hi THEN Norm(RoundDiv10(m), e + 1)
    ELSE IF Abs(m) < Lo THEN Norm(m * 10, e - 1)
    ELSE Fin(m, e)

\* A float literal of the source: n * 10^(-d), e.g. Dec(5, 1) is 0.5.
Dec(n, d) == Norm(n, -d)
One == Fin(Lo, 1 - Digits)

Sign(a) == IF a.k = "nan" THEN 0 ELSE Sgn(a.m)

Neg(a) == [a EXCEPT !.m = -a.m]

\* a * b when a or b is not finite.
MulSpecial(a, b) ==
    IF IsNaN(a) \/ IsNaN(b) THEN NaN
    ELSE IF IsZero(a) \/ IsZero(b) THEN NaN
    ELSE Inf(Sign(a) * Sign(b))

Mul(a, b) ==
    IF a.k = "fin" /\ b.k = "fin" THEN Norm(a.m * b.m, a.e + b.e)
    ELSE MulSpecial(a, b)

\* a + b when a or b is not finite.
AddSpecial(a, b) ==
    IF IsNaN(a) \/ IsNaN(b) THEN NaN
    ELSE IF IsInf(a) /\ IsInf(b) THEN (IF a.m = b.m THEN a ELSE NaN)
    ELSE IF IsInf(a) THEN a
    ELSE b

\* m1 * 10^e1 + m2 * 10^e2, rounded; a term more than Digits orders of
\* magnitude below the other is absorbed.
FinAdd(m1, e1, m2, e2) ==
    Norm(IF m1 = 0 THEN m2
         ELSE IF m2 = 0 \/ e1 - e2 > Digits THEN m1
         ELSE IF e2 - e1 > Digits THEN m2
         ELSE IF e1 >= e2 THEN m1 * 10 ^ (e1 - e2) + m2
         ELSE m2 * 10 ^ (e2 - e1) + m1,
         IF m1 = 0 THEN e2
         ELSE IF m2 = 0 \/ e1 - e2 > Digits THEN e1
         ELSE IF e2 - e1 > Digits THEN e2
         ELSE IF e1 >= e2 THEN e2
         ELSE e1)

Add(a, b) ==
    IF a.k = "fin" /\ b.k = "fin" THEN FinAdd(a.m, a.e, b.m, b.e)
    ELSE AddSpecial(a, b)

Sub(a, b) ==
    IF a.k = "fin" /\ b.k = "fin" THEN FinAdd(a.m, a.e, -b.m, b.e)
    ELSE AddSpecial(a, Neg(b))

\* a / b when a or b is not finite, or b is zero.
DivSpecial(a, b) ==
    IF IsNaN(a) \/ IsNaN(b) THEN NaN
    ELSE IF IsInf(a) THEN (IF IsInf(b) THEN NaN
                           ELSE Inf(a.m * (IF Sign(b) < 0 THEN -1 ELSE 1)))
    ELSE IF IsInf(b) THEN Zero
    ELSE IF a.m = 0 THEN NaN
    ELSE Inf(Sgn(a.m))

\* Division of two numpy scalars: x/0 is an infinity or NaN, never an error.
Div(a, b) ==
    IF a.k = "fin" /\ b.k = "fin" /\ b.m # 0
    THEN Norm(Sgn(a.m) * Sgn(b.m) * ((Abs(a.m) * 10 ^ (Digits + 1)) \div Abs(b.m)),
              a.e - b.e - (Digits + 1))
    ELSE DivSpecial(a, b)

\* a > b for finite numbers and infinities.
Above(a, b) ==
    IF a.k = "inf" THEN a.m > 0 /\ a # b
    ELSE IF b.k = "inf" THEN b.m < 0
    ELSE FinAdd(a.m, a.e, -b.m, b.e).m > 0

\* Comparisons: every comparison with NaN is false.
Gt(a, b) == a.k # "nan" /\ b.k # "nan" /\ Above(a, b)
Lt(a, b) == Gt(b, a)
Le(a, b) == a.k # "nan" /\ b.k # "nan" /\ ~Above(a, b)
Ge(a, b) == Le(b, a)

\* ------------------------------------------------- numpy / scipy functions

FromInt(n) == Norm(n, 0)
Two == FromInt(2)

\* The integer square root of n, 10^7 <= n < 10^9: four Newton steps from a
\* linear first guess, then the step down to the floor.
ISqrt(n) ==
    LET r0 == IF n < Hi * Hi THEN 2400 + n \div 13160 ELSE 7600 + n \div 41620
        r1 == (r0 + n \div r0) \div 2
        r2 == (r1 + n \div r1) \div 2
        r3 == (r2 + n \div r2) \div 2
        r4 == (r3 + n \div r3) \div 2
    IN  IF r4 * r4 > n THEN r4 - 1 ELSE r4

\* np.sqrt
Sqrt(a) ==
    IF a.k = "nan" THEN NaN
    ELSE IF a.m < 0 THEN NaN
    ELSE IF a.k = "inf" \/ a.m = 0 THEN a
    ELSE IF a.e % 2 = 0
         THEN Norm(ISqrt(a.m * 10 ^ Digits), (a.e - Digits) \div 2)
         ELSE Norm(ISqrt(a.m * 10 ^ (Digits + 1)), (a.e - Digits - 1) \div 2)

\* The working scale of the two series below: 10^(-Digits-1).
Unit == 10 * Hi

\* A finite a (|a| < 2000) in units of 1/Unit, truncated.
Fix(a) ==
    LET sh == a.e + Digits + 1
    IN  IF sh >= 0 THEN a.m * 10 ^ sh
        ELSE IF -sh > Digits THEN 0
        ELSE Sgn(a.m) * (Abs(a.m) \div 10 ^ (-sh))

Ln10 == Dec(2303, 3)

\* atanh(z)/z = 1 + z^2/3 + z^4/5 + ... + z^12/13 in units of 1/Unit, for
\* u = z^2 in units of 1/Unit (z^2 <= 0.28).
AtanhSeries(u) ==
    LET p2 == (u * u) \div Unit
        p3 == (p2 * u) \div Unit
        p4 == (p3 * u) \div Unit
        p5 == (p4 * u) \div Unit
        p6 == (p5 * u) \div Unit
    IN  Unit + u \div 3 + p2 \div 5 + p3 \div 7 + p4 \div 9 + p5 \div 11
             + p6 \div 13

\* 2 atanh(z) = 2 z (1 + z^2/3 + z^4/5 + ...)
TwoAtanh(z) ==
    Mul(Mul(Two, z), Norm(AtanhSeries(Fix(Mul(z, z))), -Digits - 1))

\* ln w = 2 atanh((w - 1) / (w + 1)), for 1/sqrt(10) < w <= sqrt(10)
LogNear1(w) == TwoAtanh(Div(Sub(w, One), Add(w, One)))

\* ln a for a finite a > 0: a = w * 10^k with w near 1 (big: the significand
\* is above sqrt(10), and w is taken below 1).
LogScaled(a, big) ==
    Add(LogNear1(Fin(a.m, IF big THEN -Digits ELSE 1 - Digits)),
        Mul(FromInt(a.e + (IF big THEN Digits ELSE Digits - 1)), Ln10))

\* np.log: NaN below zero, -inf at zero (with a warning, not an error).
\* ln(w * 10^k) = 2 atanh((w - 1)/(w + 1)) + k ln 10, 1/sqrt(10) < w <= sqrt(10).
Log(a) ==
    IF a.k = "nan" THEN NaN
    ELSE IF a.m < 0 THEN NaN
    ELSE IF a.k = "inf" THEN a
    ELSE IF a.m = 0 THEN Inf(-1)
    ELSE LogScaled(a, a.m * a.m > 10 * Lo * Lo)

\* e^(j/4), j = 0 .. 9, in units of 1/Lo
ExpQuarter == <<1000, 1284, 1649, 2117, 2718, 3490, 4482, 5755, 7389, 9488>>

\* e^s = 1 + s + s^2/2 + ... + s^5/120 in units of 1/Unit, for 0 <= s < 1/4
\* in units of 1/Unit.
ExpSeries(s) ==
    LET t2 == (s * s) \div (2 * Unit)
        t3 == (t2 * s) \div (3 * Unit)
        t4 == (t3 * s) \div (4 * Unit)
        t5 == (t4 * s) \div (5 * Unit)
    IN  Unit + s + t2 + t3 + t4 + t5

\* e^y for a finite y, -745 <= y <= 709: y = k ln 10 + j/4 + s with an
\* integer k and 0 <= s < 1/4.  (2 ln 10 is 460517 units of 1/Unit.)
ExpFinite(y) ==
    LET y2 == 2 * Fix(y)
        k  == y2 \div 460517
        rr == (y2 - k * 460517) \div 2
        j  == rr \div (Unit \div 4)
        s  == rr - j * (Unit \div 4)
    IN  Norm(ExpQuarter[j + 1] * ExpSeries(s), k - 2 * Digits)

\* |a| > n, for a finite non-zero a and an integer 0 < n < Lo.
Exceeds(a, n) ==
    \/ a.e >= 0
    \/ a.e > -Digits /\ Abs(a.m) > n * 10 ^ (-a.e)

\* |a| for a finite a
Magnitude(a) == [a EXCEPT !.m = Abs(@)]

\* np.exp: overflows to inf above 709, underflows to 0 below -745.
Exp(a) ==
    IF a.k = "nan" THEN NaN
    ELSE IF a.k = "inf" THEN (IF a.m > 0 THEN a ELSE Zero)
    ELSE IF a.m = 0 THEN One
    ELSE IF a.m > 0 /\ Exceeds(a, 709) THEN Inf(1)
    ELSE IF a.m < 0 /\ Exceeds(a, 745) THEN Zero
    ELSE ExpFinite(a)

Sqrt2Pi == Dec(2507, 3)

\* scipy.stats.norm.pdf: exp(-x**2 / 2) / sqrt(2 pi)
norm_pdf(x) == Div(Exp(Neg(Div(Mul(x, x), Two))), Sqrt2Pi)

\* t * (b1 + t * (b2 + t * (b3 + t * (b4 + t * b5)))) in units of 1/Hi, for
\* 0 < t <= 1 in units of 1/Hi: the polynomial of Abramowitz and Stegun
\* 26.2.17 (b1 = 0.31938, b2 = -0.35656, b3 = 1.78148, b4 = -1.82126,
\* b5 = 1.33027).
TailPoly(t) ==
    LET p4 == (t * 13303) \div Hi - 18213
        p3 == (t * p4) \div Hi + 17815
        p2 == (t * p3) \div Hi - 3566
        p1 == (t * p2) \div Hi + 3194
    IN  (t * p1) \div Hi

\* The upper tail 1 - Phi(z) of the standard normal for z >= 0 (the role of
\* erfc in scipy's ndtr): pdf(z) * TailPoly(1 / (1 + 0.2316 z)).
UpperTail(z) ==
    Mul(norm_pdf(z),
        Norm(TailPoly(Fix(Div(One, Add(One, Mul(Dec(2316, 4), z)))) \div 10),
             -Digits))

\* Phi(x) from the upper tail at |x|: the tail itself below zero, 1 - tail
\* from zero on.
Mirror(below, tail) == IF below THEN tail ELSE Sub(One, tail)

\* scipy.stats.norm.cdf (ndtr): the tail itself below zero, 1 - tail above.
norm_cdf(x) ==
    IF x.k = "nan" THEN NaN
    ELSE IF x.k = "inf" THEN (IF x.m > 0 THEN One ELSE Zero)
    ELSE Mirror(x.m < 0, UpperTail(Magnitude(x)))

\* ------------------------------------------------------------ the engine

Half == Dec(5, 1)

\* What a call does: it returns a value or raises.  "locals" are the values
\* of the local variables d1, d2 at the return (empty on a path that never
\* assigns them).
Return(v, loc) == [locals |-> loc, status |-> "return", value |-> v]
Raise(exc) == [status |-> "raise", value |-> exc, locals |-> <<>>]

\* S / K at lines 66 and 85.  Two Python floats: a zero divisor raises
\* ZeroDivisionError.  A numpy scalar S (a point of np.linspace): the quotient
\* is an infinity or NaN.
DivRaises(S_np, K) == ~S_np /\ IsZero(K)

\* A variant without the clamp: the formula's value as it is.
Unclamped(price) == price

\* max(0, price): price when price > 0, else the 0 it started from (also for
\* a NaN price, whose every comparison is false).
Max0(price) == IF Gt(price, Zero) THEN price ELSE Zero

\* Variants of the degenerate check: one that tests the expiry alone, one
\* that lets a zero through.
ExpiredOnly(T, sigma) == Le(T, Zero)
StrictlyNegative(T, sigma) == Lt(T, Zero) \/ Lt(sigma, Zero)

\* T <= 0 or sigma <= 0 (lines 63 and 78)
Degenerate(T, sigma) == Le(T, Zero) \/ Le(sigma, Zero)

\* line 66
price_d1(S, K, T, r, sigma, q) ==
    Div(Add(Log(Div(S, K)),
            Mul(Add(Sub(r, q), Mul(Half, Mul(sigma, sigma))), T)),
        Mul(sigma, Sqrt(T)))

\* line 67
price_d2(d1, T, sigma) == Sub(d1, Mul(sigma, Sqrt(T)))

\* line 70
call_formula(S, K, T, r, q, d1, d2) ==
    Sub(Mul(Mul(S, Exp(Mul(Neg(q), T))), norm_cdf(d1)),
        Mul(Mul(K, Exp(Mul(Neg(r), T))), norm_cdf(d2)))

\* A variant of line 72 that leaves the strike undiscounted.
put_formula_undiscounted(S, K, T, r, q, d1, d2) ==
    Sub(Mul(K, norm_cdf(Neg(d2))),
        Mul(Mul(S, Exp(Mul(Neg(q), T))), norm_cdf(Neg(d1))))

\* line 72
put_formula(S, K, T, r, q, d1, d2) ==
    Sub(Mul(Mul(K, Exp(Mul(Neg(r), T))), norm_cdf(Neg(d2))),
        Mul(Mul(S, Exp(Mul(Neg(q), T))), norm_cdf(Neg(d1))))

\* A variant of line 69 that ignores the case of option_type.
IgnoresCase(option_type) == option_type \in {"call", "Call", "CALL"}

\* line 69: the call formula for 'call', the put formula for anything else
UsesCallFormula(option_type) == option_type = "call"

\* lines 69-74, with d1 and d2 assigned
price_after_d2(S, K, T, r, q, option_type, d1, d2) ==
    Return(Max0(IF UsesCallFormula(option_type)
                THEN call_formula(S, K, T, r, q, d1, d2)
                ELSE put_formula(S, K, T, r, q, d1, d2)),
           <<d1, d2>>)

\* lines 67-74, with d1 assigned
price_after_d1(S, K, T, r, sigma, q, option_type, d1) ==
    price_after_d2(S, K, T, r, q, option_type, d1, price_d2(d1, T, sigma))

\* def black_scholes_price(S, K, T, r, sigma, q=0, option_type='call')
\* S_np: S is a numpy scalar rather than a Python float.
black_scholes_price(S, S_np, K, T, r, sigma, q, option_type) ==
    IF Degenerate(T, sigma) THEN Return(Zero, <<>>)
    ELSE IF DivRaises(S_np, K) THEN Raise("ZeroDivisionError")
    ELSE price_after_d1(S, K, T, r, sigma, q, option_type,
                        price_d1(S, K, T, r, sigma, q))

\* The default of the parameter option_type (line 62).
DefaultOptionType == "call"

GreekKeys ==
    {"delta_call", "delta_put", "gamma", "vega", "theta_call", "theta_put",
     "rho_call", "rho_put", "d1", "d2"}

\* A variant of lines 79-83 that leaves d1 and d2 out.
SensitivitiesOnly ==
    [delta_call |-> Zero, delta_put |-> Zero, gamma |-> Zero, vega |-> Zero,
     theta_call |-> Zero, theta_put |-> Zero, rho_call |-> Zero,
     rho_put |-> Zero]

\* lines 79-83
DegenerateGreeks ==
    [delta_call |-> Zero, delta_put |-> Zero, gamma |-> Zero, vega |-> Zero,
     theta_call |-> Zero, theta_put |-> Zero, rho_call |-> Zero,
     rho_put |-> Zero, d1 |-> Zero, d2 |-> Zero]

\* A variant of line 85 with ln(S) - ln(K) for ln(S/K).
d1_log_difference(S, K, T, r, sigma, q) ==
    Div(Add(Sub(Log(S), Log(K)),
            Mul(Add(Sub(r, q), Mul(Half, Mul(sigma, sigma))), T)),
        Mul(sigma, Sqrt(T)))

\* line 85
greeks_d1(S, K, T, r, sigma, q) ==
    Div(Add(Log(Div(S, K)),
            Mul(Add(Sub(r, q), Mul(Half, Mul(sigma, sigma))), T)),
        Mul(sigma, Sqrt(T)))

\* line 86
greeks_d2(d1, T, sigma) == Sub(d1, Mul(sigma, Sqrt(T)))

\* line 88
delta_call_formula(q, T, d1) == Mul(Exp(Mul(Neg(q), T)), norm_cdf(d1))

\* A variant of line 89 with the difference the other way round.
delta_put_flipped(q, T, d1) ==
    Mul(Exp(Mul(Neg(q), T)), Sub(One, norm_cdf(d1)))

\* line 89
delta_put_formula(q, T, d1) ==
    Mul(Exp(Mul(Neg(q), T)), Sub(norm_cdf(d1), One))

\* line 91
gamma_formula(S, T, sigma, q, d1) ==
    Div(Mul(Exp(Mul(Neg(q), T)), norm_pdf(d1)),
        Mul(Mul(S, sigma), Sqrt(T)))

\* line 93
vega_formula(S, T, q, d1) ==
    Div(Mul(Mul(Mul(S, Exp(Mul(Neg(q), T))), norm_pdf(d1)), Sqrt(T)),
        FromInt(100))

\* -(S * pdf(d1) * sigma * exp(-q T)) / (2 sqrt(T)), lines 95 and 99
theta_decay(S, T, sigma, q, d1) ==
    Div(Neg(Mul(Mul(Mul(S, norm_pdf(d1)), sigma), Exp(Mul(Neg(q), T)))),
        Mul(Two, Sqrt(T)))

\* lines 95-97
theta_call_formula(S, K, T, r, sigma, q, d1, d2) ==
    Div(Add(Sub(theta_decay(S, T, sigma, q, d1),
                Mul(Mul(Mul(r, K), Exp(Mul(Neg(r), T))), norm_cdf(d2))),
            Mul(Mul(Mul(q, S), Exp(Mul(Neg(q), T))), norm_cdf(d1))),
        FromInt(365))

\* lines 99-101
theta_put_formula(S, K, T, r, sigma, q, d1, d2) ==
    Div(Sub(Add(theta_decay(S, T, sigma, q, d1),
                Mul(Mul(Mul(r, K), Exp(Mul(Neg(r), T))), norm_cdf(Neg(d2)))),
            Mul(Mul(Mul(q, S), Exp(Mul(Neg(q), T))), norm_cdf(Neg(d1)))),
        FromInt(365))

\* line 103
rho_call_formula(K, T, r, d2) ==
    Div(Mul(Mul(Mul(K, T), Exp(Mul(Neg(r), T))), norm_cdf(d2)), FromInt(100))

\* line 104
rho_put_formula(K, T, r, d2) ==
    Div(Mul(Mul(Mul(Neg(K), T), Exp(Mul(Neg(r), T))), norm_cdf(Neg(d2))),
        FromInt(100))

\* lines 88-112, with d1 and d2 assigned
greeks_after_d2(S, K, T, r, sigma, q, d1, d2) ==
    Return([delta_call |-> delta_call_formula(q, T, d1),
            delta_put  |-> delta_put_formula(q, T, d1),
            gamma      |-> gamma_formula(S, T, sigma, q, d1),
            vega       |-> vega_formula(S, T, q, d1),
            theta_call |-> theta_call_formula(S, K, T, r, sigma, q, d1, d2),
            theta_put  |-> theta_put_formula(S, K, T, r, sigma, q, d1, d2),
            rho_call   |-> rho_call_formula(K, T, r, d2),
            rho_put    |-> rho_put_formula(K, T, r, d2),
            d1         |-> d1,
            d2         |-> d2],
           <<d1, d2>>)

\* lines 86-112, with d1 assigned
greeks_after_d1(S, K, T, r, sigma, q, d1) ==
    greeks_after_d2(S, K, T, r, sigma, q, d1, greeks_d2(d1, T, sigma))

\* def calculate_greeks(S, K, T, r, sigma, q=0)
calculate_greeks(S, S_np, K, T, r, sigma, q) ==
    IF Degenerate(T, sigma) THEN Return(DegenerateGreeks, <<>>)
    ELSE IF DivRaises(S_np, K) THEN Raise("ZeroDivisionError")
    ELSE greeks_after_d1(S, K, T, r, sigma, q,
                         greeks_d1(S, K, T, r, sigma, q))

\* ------------------------------------------------------------ the state

VARIABLES
    \* The engine called at one parameter point:
    args,         \* the point: S, K, T, r, sigma, q (S_np: S is a numpy scalar)
    epc,          \* which calls have been made at the point
    call_out,     \* black_scholes_price(..., 'call')
    put_out,      \* black_scholes_price(..., 'put')
    greeks_out,   \* calculate_greeks(...)
    other_out,    \* black_scholes_price with another option_type, or none
    \* The page (module level of Main.py from line 119):
    S, K, T, r, sigma, q,                 \* the values of the six widgets
    pc,                                   \* where the script run stands
    call_price, put_price, greeks,        \* lines 126-128
    call_intrinsic, put_intrinsic,        \* lines 130-131
    spot_range, call_prices, put_prices,  \* lines 174-176
    call_intrinsics, put_intrinsics,      \* lines 177-178
    vol_range, call_vol_prices, put_vol_prices,            \* lines 216-218
    spot_range_greeks, deltas_call, deltas_put, gammas,    \* lines 277-280
    calls         \* the arguments of the engine calls of the last step

evars == <<args, epc, call_out, put_out, greeks_out, other_out>>
uvars == <<S, K, T, r, sigma, q, pc, call_price, put_price, greeks,
           call_intrinsic, put_intrinsic, spot_range, call_prices, put_prices,
           call_intrinsics, put_intrinsics, vol_range, call_vol_prices,
           put_vol_prices, spot_range_greeks, deltas_call, deltas_put, gammas,
           calls>>
vars == <<evars, uvars>>

\* A variable that holds nothing yet.
None == [status |-> "none", value |-> Zero, locals |-> <<>>]

\* ------------------------------------------ the engine at a parameter point

\* The grids of parameter points.  They hold the non-positive values the
\* degenerate-input policy is about, a zero strike, the page's defaults, and
\* a strike far above the spot, where the two terms of the call formula
\* nearly cancel.
MaxSpotIdx == 3
MaxTimeIdx == 2
MaxVolIdx == 2
SpotVals == {FromInt(50 * i) : i \in -1 .. MaxSpotIdx}
StrikeVals == {FromInt(-100), Zero, FromInt(100), FromInt(400)}
TimeVals == {Dec(5 * i, 1) : i \in -1 .. MaxTimeIdx}
VolVals == {Dec(2 * i, 1) : i \in -1 .. MaxVolIdx}
RateVals == {Dec(-5, 2), Dec(5, 2)}
DividendVals == {Zero, Dec(3, 2)}
\* Values of option_type other than 'call' and 'put'; "None" stands for
\* Python's None.
OtherOptionTypes == {"Call", "PUT", "None"}

ArgPoints ==
    {[S |-> s, S_np |-> n, K |-> k, T |-> t, r |-> rr, sigma |-> v, q |-> qq] :
        s \in SpotVals, n \in BOOLEAN, k \in StrikeVals, t \in TimeVals,
        rr \in RateVals, v \in VolVals, qq \in DividendVals}

EInit ==
    /\ args \in {a \in ArgPoints : a.S_np => IsZero(a.K)}
    /\ epc = "start"
    /\ call_out = None
    /\ put_out = None
    /\ greeks_out = None
    /\ other_out = [option_type |-> "", out |-> None]

PriceAt(a, option_type) ==
    black_scholes_price(a.S, a.S_np, a.K, a.T, a.r, a.sigma, a.q, option_type)

GreeksAt(a) == calculate_greeks(a.S, a.S_np, a.K, a.T, a.r, a.sigma, a.q)

PriceCall ==
    /\ epc = "start"
    /\ call_out' = PriceAt(args, "call")
    /\ epc' = "call"
    /\ UNCHANGED <<args, put_out, greeks_out, other_out, uvars>>

PricePut ==
    /\ epc = "call"
    /\ put_out' = PriceAt(args, "put")
    /\ epc' = "put"
    /\ UNCHANGED <<args, call_out, greeks_out, other_out, uvars>>

Greeks ==
    /\ epc = "put"
    /\ greeks_out' = GreeksAt(args)
    /\ epc' = "greeks"
    /\ UNCHANGED <<args, call_out, put_out, other_out, uvars>>

\* A call that passes some other option_type.
PriceOther(option_type) ==
    /\ epc = "greeks"
    /\ other_out' = [option_type |-> option_type,
                     out |-> PriceAt(args, option_type)]
    /\ epc' = "other"
    /\ UNCHANGED <<args, call_out, put_out, greeks_out, uvars>>

\* A call that passes no option_type: the parameter takes its default.
PriceDefault ==
    /\ epc = "greeks"
    /\ other_out' = [option_type |-> "omitted",
                     out |-> PriceAt(args, DefaultOptionType)]
    /\ epc' = "other"
    /\ UNCHANGED <<args, call_out, put_out, greeks_out, uvars>>

\* ---------------------------------------------------------------- the page

\* A script variable not assigned yet in this run.
Unset == [k |-> "unset", m |-> 0, e |-> 0]
UnsetGreeks == [n \in GreekKeys |-> Unset]

Widgets == {"S", "K", "T", "r", "sigma", "q"}

\* value= of the six number_input widgets (lines 119-124)
default_value(w) ==
    CASE w = "S" -> Dec(100, 0)
      [] w = "K" -> Dec(100, 0)
      [] w = "T" -> Dec(1, 0)
      [] w = "r" -> Dec(5, 0)
      [] w = "sigma" -> Dec(20, 0)
      [] w = "q" -> Zero

\* A variant of the widgets in which every minimum is 0.
ZeroMinimum(w) == Zero

\* min_value= of the six number_input widgets (lines 119-124)
min_value(w) ==
    CASE w = "S" -> Dec(1, 2)
      [] w = "K" -> Dec(1, 2)
      [] w = "T" -> Dec(1, 3)
      [] w = "r" -> Zero
      [] w = "sigma" -> Dec(1, 1)
      [] w = "q" -> Zero

\* st.number_input takes a typed value only if it is not below min_value.
Accepts(w, typed) == Ge(typed, min_value(w))

\* What the user types into a widget: the widget's minimum, and a value
\* below it.
TypedVals(w) ==
    CASE w = "S" -> {Zero, Dec(1, 2)}
      [] w = "K" -> {Zero, Dec(1, 2)}
      [] w = "T" -> {Zero, Dec(1, 3)}
      [] w = "r" -> {Dec(-1, 0), Zero}
      [] w = "sigma" -> {Zero, Dec(1, 1)}
      [] w = "q" -> {Dec(-1, 0), Dec(3, 0)}

\* The number of points of the three sweeps (lines 174, 216, 277).
SpotPoints == 50
VolPoints == 30
GreeksPoints == 30

\* np.linspace(start, stop, num): start + i * step, the last point set to stop.
linspace(start, stop, num) ==
    LET step == Div(Sub(stop, start), FromInt(num - 1))
    IN  [i \in 1 .. num |->
            IF i = num THEN stop ELSE Add(Mul(FromInt(i - 1), step), start)]

\* A variant that puts x in front.
prepend(list, x) == <<x>> \o list

\* list.append(x) (lines 181-184, 221-222, 284-286)
append(list, x) == Append(list, x)

\* The arguments of an engine call that the properties of the page read.
CallArgs(fn, s, k, t, v) == [fn |-> fn, S |-> s, K |-> k, T |-> t, sigma |-> v]

\* The script's variables at the start of a run.
FreshRun ==
    /\ call_price' = Unset /\ put_price' = Unset /\ greeks' = UnsetGreeks
    /\ call_intrinsic' = Unset /\ put_intrinsic' = Unset
    /\ spot_range' = <<>> /\ call_prices' = <<>> /\ put_prices' = <<>>
    /\ call_intrinsics' = <<>> /\ put_intrinsics' = <<>>
    /\ vol_range' = <<>> /\ call_vol_prices' = <<>> /\ put_vol_prices' = <<>>
    /\ spot_range_greeks' = <<>> /\ deltas_call' = <<>> /\ deltas_put' = <<>>
    /\ gammas' = <<>>
    /\ calls' = {}

UInit ==
    /\ S = default_value("S") /\ K = default_value("K")
    /\ T = default_value("T")
    /\ r = Div(default_value("r"), FromInt(100))
    /\ sigma = Div(default_value("sigma"), FromInt(100))
    /\ q = Div(default_value("q"), FromInt(100))
    /\ pc = "compute"
    /\ call_price = Unset /\ put_price = Unset /\ greeks = UnsetGreeks
    /\ call_intrinsic = Unset /\ put_intrinsic = Unset
    /\ spot_range = <<>> /\ call_prices = <<>> /\ put_prices = <<>>
    /\ call_intrinsics = <<>> /\ put_intrinsics = <<>>
    /\ vol_range = <<>> /\ call_vol_prices = <<>> /\ put_vol_prices = <<>>
    /\ spot_range_greeks = <<>> /\ deltas_call = <<>> /\ deltas_put = <<>>
    /\ gammas = <<>>
    /\ calls = {}

\* The user commits a value in a widget: Streamlit reruns the script from the
\* top (stopping a run in progress), and lines 119-124 read the widgets, the
\* three percentages divided by 100.
Interact(w, typed) ==
    /\ Accepts(w, typed)
    /\ S' = IF w = "S" THEN typed ELSE S
    /\ K' = IF w = "K" THEN typed ELSE K
    /\ T' = IF w = "T" THEN typed ELSE T
    /\ r' = IF w = "r" THEN Div(typed, FromInt(100)) ELSE r
    /\ sigma' = IF w = "sigma" THEN Div(typed, FromInt(100)) ELSE sigma
    /\ q' = IF w = "q" THEN Div(typed, FromInt(100)) ELSE q
    /\ pc' = "compute"
    /\ FreshRun
    /\ UNCHANGED evars

\* Lines 126-131 and, entering tab2, lines 174-178.  An exception of a call
\* ends the run.
Compute ==
    /\ pc = "compute"
    /\ LET c == black_scholes_price(S, FALSE, K, T, r, sigma, q, "call")
           p == black_scholes_price(S, FALSE, K, T, r, sigma, q, "put")
           g == calculate_greeks(S, FALSE, K, T, r, sigma, q)
       IN  IF c.status = "raise" \/ p.status = "raise" \/ g.status = "raise"
           THEN /\ pc' = "error"
                /\ UNCHANGED <<call_price, put_price, greeks, call_intrinsic,
                               put_intrinsic, spot_range>>
           ELSE /\ pc' = "spot_sweep"
                /\ call_price' = c.value
                /\ put_price' = p.value
                /\ greeks' = g.value
                /\ call_intrinsic' = Max0(Sub(S, K))
                /\ put_intrinsic' = Max0(Sub(K, S))
                /\ spot_range' = linspace(Mul(S, Dec(6, 1)), Mul(S, Dec(14, 1)),
                                          SpotPoints)
    /\ calls' = {CallArgs("black_scholes_price", S, K, T, sigma),
                 CallArgs("calculate_greeks", S, K, T, sigma)}
    /\ UNCHANGED <<S, K, T, r, sigma, q, call_prices, put_prices,
                   call_intrinsics, put_intrinsics, vol_range, call_vol_prices,
                   put_vol_prices, spot_range_greeks, deltas_call, deltas_put,
                   gammas, evars>>

\* One iteration of the loop of lines 180-184; after the last one, lines
\* 216-218.
SpotSweepStep ==
    /\ pc = "spot_sweep"
    /\ LET spot == spot_range[Len(call_prices) + 1]
           c == black_scholes_price(spot, TRUE, K, T, r, sigma, q, "call")
           p == black_scholes_price(spot, TRUE, K, T, r, sigma, q, "put")
       IN  /\ calls' = {CallArgs("black_scholes_price", spot, K, T, sigma)}
           /\ IF c.status = "raise" \/ p.status = "raise"
              THEN /\ pc' = "error"
                   /\ UNCHANGED <<call_prices, put_prices, call_intrinsics,
                                  put_intrinsics, vol_range>>
              ELSE /\ call_prices' = append(call_prices, c.value)
                   /\ put_prices' = append(put_prices, p.value)
                   /\ call_intrinsics' = append(call_intrinsics, Max0(Sub(spot, K)))
                   /\ put_intrinsics' = append(put_intrinsics, Max0(Sub(K, spot)))
                   /\ IF Len(call_prices) + 1 = Len(spot_range)
                      THEN /\ pc' = "vol_sweep"
                           /\ vol_range' = linspace(Dec(1, 1), Dec(10, 1), VolPoints)
                      ELSE UNCHANGED <<pc, vol_range>>
    /\ UNCHANGED <<S, K, T, r, sigma, q, call_price, put_price, greeks,
                   call_intrinsic, put_intrinsic, spot_range, call_vol_prices,
                   put_vol_prices, spot_range_greeks, deltas_call, deltas_put,
                   gammas, evars>>

\* One iteration of the loop of lines 220-222; after the last one, entering
\* tab3, lines 277-280.
VolSweepStep ==
    /\ pc = "vol_sweep"
    /\ LET vol == vol_range[Len(call_vol_prices) + 1]
           c == black_scholes_price(S, FALSE, K, T, r, vol, q, "call")
           p == black_scholes_price(S, FALSE, K, T, r, vol, q, "put")
       IN  /\ calls' = {CallArgs("black_scholes_price", S, K, T, vol)}
           /\ IF c.status = "raise" \/ p.status = "raise"
              THEN /\ pc' = "error"
                   /\ UNCHANGED <<call_vol_prices, put_vol_prices,
                                  spot_range_greeks>>
              ELSE /\ call_vol_prices' = append(call_vol_prices, c.value)
                   /\ put_vol_prices' = append(put_vol_prices, p.value)
                   /\ IF Len(call_vol_prices) + 1 = Len(vol_range)
                      THEN /\ pc' = "greeks_sweep"
                           /\ spot_range_greeks' =
                                linspace(Mul(S, Dec(8, 1)), Mul(S, Dec(12, 1)),
                                         GreeksPoints)
                      ELSE UNCHANGED <<pc, spot_range_greeks>>
    /\ UNCHANGED <<S, K, T, r, sigma, q, call_price, put_price, greeks,
                   call_intrinsic, put_intrinsic, spot_range, call_prices,
                   put_prices, call_intrinsics, put_intrinsics, vol_range,
                   deltas_call, deltas_put, gammas, evars>>

\* One iteration of the loop of lines 282-286; the run ends after the last.
GreeksSweepStep ==
    /\ pc = "greeks_sweep"
    /\ LET spot == spot_range_greeks[Len(deltas_call) + 1]
           greeks_temp == calculate_greeks(spot, TRUE, K, T, r, sigma, q)
       IN  /\ calls' = {CallArgs("calculate_greeks", spot, K, T, sigma)}
           /\ IF greeks_temp.status = "raise"
              THEN /\ pc' = "error"
                   /\ UNCHANGED <<deltas_call, deltas_put, gammas>>
              ELSE /\ deltas_call' = append(deltas_call, greeks_temp.value.delta_call)
                   /\ deltas_put' = append(deltas_put, greeks_temp.value.delta_put)
                   /\ gammas' = append(gammas, greeks_temp.value.gamma)
                   /\ pc' = IF Len(deltas_call) + 1 = Len(spot_range_greeks)
                            THEN "done" ELSE pc
    /\ UNCHANGED <<S, K, T, r, sigma, q, call_price, put_price, greeks,
                   call_intrinsic, put_intrinsic, spot_range, call_prices,
                   put_prices, call_intrinsics, put_intrinsics, vol_range,
                   call_vol_prices, put_vol_prices, spot_range_greeks, evars>>

\* ------------------------------------------------------- specifications

\* The engine applied at every point of the grid; the page stays as loaded.
Init == EInit /\ UInit

Next ==
    \/ PriceCall
    \/ PricePut
    \/ Greeks
    \/ \E option_type \in OtherOptionTypes : PriceOther(option_type)
    \/ PriceDefault

Spec == Init /\ [][Next]_vars

\* The page: runs of the script, restarted by the user's inputs.
EIdle ==
    /\ args = [S |-> default_value("S"), S_np |-> FALSE, K |-> default_value("K"),
               T |-> default_value("T"), r |-> Zero, sigma |-> Zero, q |-> Zero]
    /\ epc = "idle"
    /\ call_out = None
    /\ put_out = None
    /\ greeks_out = None
    /\ other_out = [option_type |-> "", out |-> None]

InitUI == EIdle /\ UInit

NextUI ==
    \/ \E w \in Widgets : \E typed \in TypedVals(w) : Interact(w, typed)
    \/ Compute
    \/ SpotSweepStep
    \/ VolSweepStep
    \/ GreeksSweepStep

SpecUI == InitUI /\ [][NextUI]_vars

\* ------------------------------------------------------------ properties

\* The calls made so far at the point.
PriceOuts == {call_out, put_out, other_out.out} \ {None}

\* S > 0, K > 0, T >= 0, sigma >= 0, q >= 0, any r
ValidPoint ==
    /\ Gt(args.S, Zero) /\ Gt(args.K, Zero)
    /\ Ge(args.T, Zero) /\ Ge(args.sigma, Zero) /\ Ge(args.q, Zero)

\* T <= 0 or sigma <= 0
DegeneratePoint == Le(args.T, Zero) \/ Le(args.sigma, Zero)

\* C1: for every S, K, r, q and option type, if T <= 0 or sigma <= 0 then
\* black_scholes_price returns exactly 0; it does not raise (not even for a
\* zero strike), and d1 is never assigned, so ln(S/K) is not evaluated.
C1_DegeneratePriceIsZero ==
    DegeneratePoint => \A out \in PriceOuts : out = Return(Zero, <<>>)

\* A degenerate point with a non-positive spot and a zero strike, where S / K
\* would raise, after all the calls.
C1_Witness ==
    /\ epc = "other" /\ DegeneratePoint
    /\ Le(args.S, Zero) /\ IsZero(args.K) /\ ~args.S_np
    /\ PriceOuts = {Return(Zero, <<>>)}

\* C2: for every S, K, r, q, if T <= 0 or sigma <= 0 then calculate_greeks
\* returns, without raising, a result whose ten fields are all 0.
C2_DegenerateGreeksAreZero ==
    DegeneratePoint /\ greeks_out # None =>
        /\ greeks_out.status = "return"
        /\ DOMAIN greeks_out.value = GreekKeys
        /\ \A key \in GreekKeys : greeks_out.value[key] = Zero

\* A point at expiry (T = 0) with a positive volatility and a zero strike,
\* after calculate_greeks.
C2_Witness ==
    /\ epc \in {"greeks", "other"} /\ IsZero(args.T) /\ Gt(args.sigma, Zero)
    /\ IsZero(args.K)
    /\ greeks_out.status = "return" /\ greeks_out.value.delta_call = Zero

\* C3: for all valid inputs and option type call or put, black_scholes_price
\* returns a value >= 0.
C3_PriceIsNonNegative ==
    ValidPoint =>
        \A out \in {call_out, put_out} \ {None} :
            out.status = "return" /\ Ge(out.value, Zero)

\* A valid point where the call formula itself is negative (its two terms
\* nearly cancel and the rounding decides the sign) and the call returned 0.
C3_Witness ==
    /\ ValidPoint /\ ~DegeneratePoint /\ call_out.status = "return"
    /\ Lt(call_formula(args.S, args.K, args.T, args.r, args.q,
                       call_out.locals[1], call_out.locals[2]), Zero)
    /\ call_out.value = Zero

\* The relative spacing of the floats, 10^(1 - Digits): the tolerance of a
\* comparison up to rounding.
Eps == Fin(Lo, 2 - 2 * Digits)

\* e^(-qT) and e^(-rT) at the point
DiscountQ == Exp(Mul(Neg(args.q), args.T))
DiscountR == Exp(Mul(Neg(args.r), args.T))

\* (call - put) - (S e^(-qT) - K e^(-rT))
ParityGap ==
    Sub(Sub(call_out.value, put_out.value),
        Sub(Mul(args.S, DiscountQ), Mul(args.K, DiscountR)))

\* Both prices returned, and put-call parity within the tolerance, taken
\* relative to S + K.
ParityHolds ==
    /\ call_out.status = "return" /\ put_out.status = "return"
    /\ Le(Magnitude(ParityGap), Mul(Eps, Add(args.S, args.K)))

\* C4 as stated: put-call parity at every valid point, T >= 0 and
\* sigma >= 0 included.
C4_ParityAtEveryValidPoint ==
    ValidPoint /\ put_out # None => ParityHolds

\* C4, amended: put-call parity within tolerance at every valid point with
\* T > 0 and sigma > 0.
C4_ParityWhenNotDegenerate ==
    ValidPoint /\ ~DegeneratePoint /\ put_out # None => ParityHolds

\* A valid point with T > 0 and sigma > 0 where both prices are positive and
\* the parity holds up to a rounding error that is not zero.
C4_Witness ==
    /\ ValidPoint /\ ~DegeneratePoint /\ put_out # None
    /\ Gt(call_out.value, Zero) /\ Gt(put_out.value, Zero)
    /\ ParityHolds /\ ParityGap # Zero

\* C5: at a point with T > 0 and sigma > 0, the d1 and d2 that
\* calculate_greeks returns are exactly the d1 and d2 of black_scholes_price
\* (the same value, a NaN matching a NaN).
C5_SameD1AndD2 ==
    ~DegeneratePoint /\ greeks_out.status = "return" =>
        \A out \in PriceOuts :
            /\ out.status = "return"
            /\ greeks_out.value.d1 = out.locals[1]
            /\ greeks_out.value.d2 = out.locals[2]

\* A point with T > 0 and sigma > 0, after all the calls, with finite and
\* distinct d1 and d2.
C5_Witness ==
    /\ ~DegeneratePoint /\ epc = "other" /\ greeks_out.status = "return"
    /\ IsFin(greeks_out.value.d1) /\ IsFin(greeks_out.value.d2)
    /\ greeks_out.value.d1 # greeks_out.value.d2
    /\ call_out.locals = <<greeks_out.value.d1, greeks_out.value.d2>>

\* C6: whenever calculate_greeks returns, on the degenerate path and on the
\* other, the mapping has exactly the ten keys; the only other outcome is an
\* exception, which returns nothing.
C6_AlwaysTenKeys ==
    greeks_out # None =>
        \/ greeks_out.status = "return" /\ DOMAIN greeks_out.value = GreekKeys
        \/ greeks_out.status = "raise" /\ greeks_out.locals = <<>>

\* A return on the non-degenerate path, with a gamma that is not zero.
C6_Witness ==
    /\ ~DegeneratePoint /\ greeks_out.status = "return"
    /\ DOMAIN greeks_out.value = GreekKeys
    /\ IsFin(greeks_out.value.gamma) /\ greeks_out.value.gamma # Zero

\* delta_call in [0, 1] and delta_put in [-1, 0]
DeltaBounds ==
    /\ Ge(greeks_out.value.delta_call, Zero)
    /\ Le(greeks_out.value.delta_call, One)
    /\ Le(greeks_out.value.delta_put, Zero)
    /\ Ge(greeks_out.value.delta_put, Neg(One))

\* delta_put - (delta_call - e^(-qT))
DeltaGap ==
    Sub(greeks_out.value.delta_put,
        Sub(greeks_out.value.delta_call, DiscountQ))

\* C8 as stated: at a valid point with T > 0 and sigma > 0 the deltas are in
\* their bounds and delta_put = delta_call - e^(-qT).
C8_DeltaIdentityExact ==
    ValidPoint /\ ~DegeneratePoint /\ greeks_out # None =>
        greeks_out.status = "return" /\ DeltaBounds /\ DeltaGap = Zero

\* C8, amended: at a valid point with T > 0 and sigma > 0 the deltas are in
\* their bounds, and delta_put = delta_call - e^(-qT) up to rounding
\* (relative to e^(-qT)).
C8_DeltaIdentityUpToRounding ==
    ValidPoint /\ ~DegeneratePoint /\ greeks_out # None =>
        /\ greeks_out.status = "return" /\ DeltaBounds
        /\ Le(Magnitude(DeltaGap), Mul(Eps, DiscountQ))

\* A valid point with a dividend yield, where e^(-qT) (Phi(d1) - 1) and
\* e^(-qT) Phi(d1) - e^(-qT) round differently.
C8_Witness ==
    /\ ValidPoint /\ ~DegeneratePoint /\ greeks_out.status = "return"
    /\ Gt(args.q, Zero) /\ DeltaBounds
    /\ DeltaGap # Zero /\ Le(Magnitude(DeltaGap), Mul(Eps, DiscountQ))

\* The value line 74 returns from the call formula, or from the put formula,
\* with the d1 and d2 of the call out.
FormulaValue(out, call) ==
    Max0(IF call
         THEN call_formula(args.S, args.K, args.T, args.r, args.q,
                           out.locals[1], out.locals[2])
         ELSE put_formula(args.S, args.K, args.T, args.r, args.q,
                          out.locals[1], out.locals[2]))

\* out is a return of the formula branch.
Priced(out) == out.status = "return" /\ out.locals # <<>>

\* C10: the call formula prices exactly 'call' and an omitted option_type;
\* any other value is priced with the put formula and is not rejected (the
\* call raises only where the call for 'call' raises).
C10_CallOnlyForExactlyCall ==
    /\ Priced(call_out) => call_out.value = FormulaValue(call_out, TRUE)
    /\ Priced(put_out) => put_out.value = FormulaValue(put_out, FALSE)
    /\ other_out.out # None =>
        /\ other_out.out.status = call_out.status
        /\ Priced(other_out.out) =>
              other_out.out.value =
                  FormulaValue(other_out.out, other_out.option_type = "omitted")

\* A valid point where the call and the put differ, and 'Call' was priced as
\* the put.
C10_Witness ==
    /\ ValidPoint /\ ~DegeneratePoint /\ other_out.option_type = "Call"
    /\ Priced(other_out.out)
    /\ other_out.out.value = put_out.value
    /\ other_out.out.value # call_out.value

\* ---------------------------------------------------- properties of the page

C9_PageCallsArePositive ==
    /\ pc # "error"
    /\ \A c \in calls :
        /\ Gt(c.S, Zero) /\ Gt(c.K, Zero) /\ Gt(c.T, Zero) /\ Gt(c.sigma, Zero)

\* The last point of the spot sweep with every widget of S, K, T and sigma at
\* its minimum.
C9_Witness ==
    /\ S = min_value("S") /\ K = min_value("K") /\ T = min_value("T")
    /\ sigma = Div(min_value("sigma"), FromInt(100))
    /\ pc = "vol_sweep"
    /\ \E c \in calls : c.S = spot_range[SpotPoints] /\ c.fn = "black_scholes_price"

====
